---- MODULE Spec2Model ----
(***************************************************************************)
(* A model of pqrs' src/utils.rs: row printing, random sampling, the       *)
(* ParquetData aggregate with its merge (Add) and read/write paths, and    *)
(* the human readable size formatting.                                     *)
(*                                                                         *)
(* One command runs per behaviour: Init is the idle state, a Start action  *)
(* draws the command's inputs, and the command's own steps follow until    *)
(* pc = "done".                                                            *)
(***************************************************************************)
EXTENDS Integers, Sequences, FiniteSets, TLC

\* ---------------------------------------------------------------- bounds
\* largest number of rows in a file given to print_rows / print_rows_random
MaxRows == 3
\* sample sizes and record counts are drawn from -MaxNeg .. MaxRows + 1
MaxNeg == 2
\* number of files one merge command reads
MaxReads == 3
\* largest number of record batches the batch reader cuts one file into
MaxFileBatches == 2
\* largest number of batches of an operand handed directly to add
MaxBatches == 2
\* largest value of the `rows` field of an operand handed directly to add
MaxRowsField == 1

\* ---------------------------------------------------------------- helpers
Min(a, b) == IF a < b THEN a ELSE b
Max(a, b) == IF a > b THEN a ELSE b

RECURSIVE SumSeq(_)
SumSeq(s) == IF s = <<>> THEN 0 ELSE Head(s) + SumSeq(Tail(s))

\* all ways to cut n rows into non-empty row groups
RECURSIVE Compositions(_)
Compositions(n) ==
    IF n = 0 THEN {<<>>}
    ELSE UNION {{<<k>> \o c : c \in Compositions(n - k)} : k \in 1..n}

\* every ordering of the elements of S
RECURSIVE Permutations_(_)
Permutations_(S) ==
    IF S = {} THEN {<<>>}
    ELSE UNION {{<<x>> \o p : p \in Permutations_(S \ {x})} : x \in S}

SeqContains(s, x) == \E i \in 1..Len(s) : s[i] = x

\* a parquet file as seen by the row level reader: whether the codec can
\* parse it, and the row count of each of its row groups; the rows
\* themselves are identified by their 0-based position in the file
RowFiles ==
    {[valid |-> v, groups |-> g] :
        v \in BOOLEAN, g \in UNION {Compositions(n) : n \in 0..MaxRows}}

\* Option<i64>
None == [some |-> FALSE, val |-> 0]
Some(v) == [some |-> TRUE, val |-> v]

\* ------------------------------------------------------------- ParquetData
\* the batch size get_row_batches asks the record reader for
BATCH_SIZE == 1024

\* A RecordBatch is opaque but for its row count; `src` and `idx` tell the
\* batches apart (the file it was decoded from and its place there).
RecordBatch(s, i, n) == [src |-> s, idx |-> i, num_rows |-> n]

\* Schema: the fields and the file specific metadata
Schema(f, m) == [fields |-> f, metadata |-> m]

ParquetData(s, b, r) == [schema |-> s, batches |-> b, rows |-> r]

EmptyData == ParquetData(Schema("", ""), <<>>, 0)

RECURSIVE SumRows(_)
SumRows(bs) == IF bs = <<>> THEN 0 ELSE Head(bs).num_rows + SumRows(Tail(bs))

\* add with the right operand's batches put first
add_rhs_first(self, rhs) ==
    [schema |-> self.schema,
     batches |-> rhs.batches \o self.batches,
     rows |-> self.rows + rhs.rows]

\* add that forgets to count the right operand's rows
add_lhs_rows(self, rhs) ==
    [schema |-> self.schema,
     batches |-> self.batches \o rhs.batches,
     rows |-> self.rows]

\* add that silently skips a right operand whose schema differs
add_same_schema_only(self, rhs) ==
    IF rhs.schema.fields = self.schema.fields
    THEN [schema |-> self.schema,
          batches |-> self.batches \o rhs.batches,
          rows |-> self.rows + rhs.rows]
    ELSE self

\* impl Add for ParquetData
add(self, rhs) ==
    LET combined_data == (<<>> \o self.batches) \o rhs.batches
    IN  [schema |-> self.schema,
         batches |-> combined_data,
         rows |-> self.rows + rhs.rows]

\* the files a merge command can be given: whether the path opens, whether
\* the codec can parse the footer, the number of rows, and the 1-based
\* place of the batch whose decoding fails (0 when every batch decodes)
NumBatches(n) == (n + BATCH_SIZE - 1) \div BATCH_SIZE

BatchFileRows ==
    {0, 1} \cup UNION {{m * BATCH_SIZE, m * BATCH_SIZE + 1} : m \in 1..MaxFileBatches - 1}

BatchFiles ==
    {[openable |-> FALSE, valid |-> TRUE, rows |-> 0, bad |-> 0, fields |-> "f1"],
     [openable |-> TRUE, valid |-> FALSE, rows |-> 0, bad |-> 0, fields |-> "f1"]}
    \cup UNION {{[openable |-> TRUE, valid |-> TRUE, rows |-> n, bad |-> b, fields |-> f] :
                    b \in 0..NumBatches(n), f \in {"f1", "f2"}} : n \in BatchFileRows}

\* the record batch reader cuts the rows into batches of BATCH_SIZE rows,
\* the last one holding the remainder
BatchAt(name, f, i) ==
    RecordBatch(name, i, Min(BATCH_SIZE, f.rows - (i - 1) * BATCH_SIZE))

\* operands handed directly to add: any schema, any batches, any rows field
BatchPool == {RecordBatch("x", 1, 1), RecordBatch("y", 1, 2)}

BatchSeqs == UNION {[1..n -> BatchPool] : n \in 0..MaxBatches}

Operands ==
    {ParquetData(Schema(f, "m"), b, r) :
        f \in {"f1", "f2"}, b \in BatchSeqs, r \in 0..MaxRowsField}

\* ---------------------------------------------------------- get_pretty_size
\* An i64 byte count exceeds the integers TLC evaluates, so a
\* non-negative i64 is kept as its NumDigits digits in base ONE_KI_B, least
\* significant first; the top digit weighs 2^60 and is at most TopDigitMax.
ONE_KI_B == 1024
NumDigits == 7
TopDigitMax == 7

\* ONE_MI_B .. ONE_PI_B are ONE_KI_B raised to these powers
ONE_KI_B_POW == 1
ONE_MI_B_POW == 2
ONE_GI_B_POW == 3
ONE_TI_B_POW == 4
ONE_PI_B_POW == 5

DigitPool == {0, 1, ONE_KI_B \div 2, ONE_KI_B - 1}

ByteCounts ==
    {b \in [1..NumDigits -> DigitPool \cup {TopDigitMax}] :
        /\ \A i \in 1..NumDigits - 1 : b[i] \in DigitPool
        /\ b[NumDigits] \in {0, TopDigitMax}}

\* bytes / ONE_KI_B^e, the truncating integer division
DivPow(b, e) == [i \in 1..NumDigits |-> IF i + e <= NumDigits THEN b[i + e] ELSE 0]

\* q < 1 for a non-negative q
LessThanOne(q) == \A i \in 1..NumDigits : q[i] = 0

\* the integer a digit sequence stands for
RECURSIVE Value(_)
Value(q) == IF LessThanOne(q) THEN 0 ELSE q[1] + ONE_KI_B * Value(DivPow(q, 1))

\* format!("{}", v) of an i64
FormatDisplay(v) == ToString(v)

\* format!("{:.3}", v) of an i64: the precision is ignored for integer types
FormatPrecision3(v) == ToString(v)

\* get_pretty_size whose first test compares against ONE_MI_B
get_pretty_size_first_mib(b) ==
    IF LessThanOne(DivPow(b, ONE_MI_B_POW))
    THEN FormatDisplay(Value(b)) \o " Bytes"
    ELSE IF LessThanOne(DivPow(b, ONE_GI_B_POW))
    THEN FormatPrecision3(Value(DivPow(b, ONE_MI_B_POW))) \o " MiB"
    ELSE IF LessThanOne(DivPow(b, ONE_TI_B_POW))
    THEN FormatPrecision3(Value(DivPow(b, ONE_GI_B_POW))) \o " GiB"
    ELSE IF LessThanOne(DivPow(b, ONE_PI_B_POW))
    THEN FormatPrecision3(Value(DivPow(b, ONE_TI_B_POW))) \o " TiB"
    ELSE FormatPrecision3(Value(DivPow(b, ONE_PI_B_POW))) \o " PiB"

get_pretty_size(bytes) ==
    IF LessThanOne(DivPow(bytes, ONE_KI_B_POW))
    THEN FormatDisplay(Value(bytes)) \o " Bytes"
    ELSE IF LessThanOne(DivPow(bytes, ONE_MI_B_POW))
    THEN FormatPrecision3(Value(DivPow(bytes, ONE_KI_B_POW))) \o " KiB"
    ELSE IF LessThanOne(DivPow(bytes, ONE_GI_B_POW))
    THEN FormatPrecision3(Value(DivPow(bytes, ONE_MI_B_POW))) \o " MiB"
    ELSE IF LessThanOne(DivPow(bytes, ONE_TI_B_POW))
    THEN FormatPrecision3(Value(DivPow(bytes, ONE_GI_B_POW))) \o " GiB"
    ELSE IF LessThanOne(DivPow(bytes, ONE_PI_B_POW))
    THEN FormatPrecision3(Value(DivPow(bytes, ONE_TI_B_POW))) \o " TiB"
    ELSE FormatPrecision3(Value(DivPow(bytes, ONE_PI_B_POW))) \o " PiB"

VARIABLES
    op,          \* the command being run
    pc,          \* its position
    result,      \* "none" while running, then "Ok", "Err" or "panic"
    file,        \* the input file of print_rows / print_rows_random
    num_records, \* print_rows: Option<i64>
    sample_size, \* print_rows_random: i64
    start,       \* the loop counter `start` of both printing loops
    end_,        \* print_rows: `end`
    all_records, \* print_rows: `all_records`
    iter,        \* number of rows the row iterator has yielded
    indexes,     \* print_rows_random: the `indexes` vector
    out,         \* the rows printed so far, by file position
    err,         \* the call whose failure ended the command, "" if none
    reads,       \* merge: number of get_row_batches calls started
    input,       \* get_row_batches: the file being read
    batches,     \* get_row_batches: the local `batches`
    rows,        \* get_row_batches: the local `rows`
    datas,       \* merge: the ParquetData values alive, oldest first
    data,        \* write_parquet: the value being written
    written,     \* write_parquet: batches handed to writer.write, in order
    closes,      \* write_parquet: number of writer.close calls
    writer,      \* write_parquet: the ArrowWriter, once constructed
    argA,        \* add: first operand
    argB,        \* add: second operand
    argC,        \* add: third operand
    sumAB,       \* add: argA + argB
    left,        \* add: (argA + argB) + argC
    right,       \* add: argA + (argB + argC)
    bytes,       \* get_pretty_size: the argument
    pretty       \* get_pretty_size: the returned string

printVars == <<file, num_records, sample_size, start, end_, all_records,
               iter, indexes, out>>
readVars == <<reads, input, batches, rows, datas>>
writeVars == <<data, written, closes, writer>>
addVars == <<argA, argB, argC, sumAB, left, right>>

sizeVars == <<bytes, pretty>>

vars == <<op, pc, result, err, printVars, readVars, writeVars, addVars,
          sizeVars>>

\* ------------------------------------------------------------ get_row_count
get_row_count(f) == SumSeq(f.groups)

\* the row iterator yields every row of every row group, in file order
RowsInFile(f) == SumSeq(f.groups)

\* ---------------------------------------------------------------- `as usize`
\* A usize is kept as four 16 bit limbs, least significant first, so that the
\* two's complement reinterpretation of a negative i64 is representable.
LimbBase == 65536

AsUsize(k) ==
    <<k % LimbBase,
      (k \div LimbBase) % LimbBase,
      IF k < 0 THEN LimbBase - 1 ELSE 0,
      IF k < 0 THEN LimbBase - 1 ELSE 0>>

\* take that keeps one element too many
Take_one_more(v, n) ==
    IF n[3] # 0 \/ n[4] # 0 \/ n[2] * LimbBase + n[1] + 1 >= Len(v)
    THEN v
    ELSE SubSeq(v, 1, n[2] * LimbBase + n[1] + 1)

\* Iterator::take(n).collect() on a vector: the first min(n, len) elements
Take(v, n) ==
    IF n[3] # 0 \/ n[4] # 0 \/ n[2] * LimbBase + n[1] >= Len(v)
    THEN v
    ELSE SubSeq(v, 1, n[2] * LimbBase + n[1])

\* the values of everything but op, pc and a command's inputs at start
Fresh ==
    /\ result = "none"
    /\ file = [valid |-> TRUE, groups |-> <<>>]
    /\ num_records = None
    /\ sample_size = 0
    /\ start = 0
    /\ end_ = 0
    /\ all_records = FALSE
    /\ iter = 0
    /\ indexes = <<>>
    /\ out = <<>>
    /\ err = ""
    /\ reads = 0
    /\ input = [openable |-> TRUE, valid |-> TRUE, rows |-> 0, bad |-> 0, fields |-> "f1"]
    /\ batches = <<>>
    /\ rows = 0
    /\ datas = <<>>
    /\ data = EmptyData
    /\ written = <<>>
    /\ closes = 0
    /\ writer = [created |-> FALSE, schema |-> Schema("", "")]
    /\ sumAB = EmptyData
    /\ left = EmptyData
    /\ right = EmptyData
    /\ pretty = ""

FreshAdd ==
    /\ argA = EmptyData
    /\ argB = EmptyData
    /\ argC = EmptyData

FreshSize == bytes = [i \in 1..NumDigits |-> 0]

Init ==
    /\ op = "idle"
    /\ pc = "idle"
    /\ Fresh
    /\ FreshAdd
    /\ FreshSize

\* ---------------------------------------------------------------- print_rows
StartPrintRows ==
    /\ op = "idle"
    /\ \E f \in RowFiles, n \in {None} \cup {Some(c) : c \in -MaxNeg..MaxRows + 1} :
         /\ file' = f
         /\ num_records' = n
    /\ op' = "print_rows"
    /\ pc' = "open"
    /\ UNCHANGED <<result, err, sample_size, start, end_, all_records, iter,
                   indexes, out, readVars, writeVars, addVars, sizeVars>>

\* SerializedFileReader::new(file)?, get_row_iter(None)?, and the locals
PrintRowsOpen ==
    /\ op = "print_rows" /\ pc = "open"
    /\ IF ~file.valid
       THEN /\ result' = "Err"
            /\ err' = "SerializedFileReader::new"
            /\ pc' = "done"
            /\ UNCHANGED <<start, end_, all_records, iter>>
       ELSE /\ iter' = 0
            /\ start' = 0
            /\ end_' = IF num_records.some THEN num_records.val ELSE 0
            /\ all_records' = ~num_records.some
            /\ pc' = "loop"
            /\ UNCHANGED <<result, err>>
    /\ UNCHANGED <<op, file, num_records, sample_size, indexes, out,
                   readVars, writeVars, addVars, sizeVars>>

\* the while condition with <= for <
PrintRowsLoopCond_le == all_records \/ start <= end_

PrintRowsLoopCond == all_records \/ start < end_

\* one evaluation of the while condition and, when it holds, of the body
PrintRowsLoop ==
    /\ op = "print_rows" /\ pc = "loop"
    /\ IF PrintRowsLoopCond /\ iter < RowsInFile(file)
       THEN /\ out' = Append(out, iter)
            /\ iter' = iter + 1
            /\ start' = start + 1
            /\ UNCHANGED <<pc, result>>
       ELSE /\ pc' = "done"
            /\ result' = "Ok"
            /\ UNCHANGED <<out, iter, start>>
    /\ UNCHANGED <<op, err, file, num_records, sample_size, end_, all_records,
                   indexes, readVars, writeVars, addVars, sizeVars>>

\* ---------------------------------------------------------- print_rows_random
StartPrintRowsRandom ==
    /\ op = "idle"
    /\ \E f \in RowFiles, k \in -MaxNeg..MaxRows + 1 :
         /\ file' = f
         /\ sample_size' = k
    /\ op' = "print_rows_random"
    /\ pc' = "open"
    /\ UNCHANGED <<result, err, num_records, start, end_, all_records, iter,
                   indexes, out, readVars, writeVars, addVars, sizeVars>>

\* the readers, get_row_count and the initial index vector
PrintRowsRandomOpen ==
    /\ op = "print_rows_random" /\ pc = "open"
    /\ IF ~file.valid
       THEN /\ result' = "Err"
            /\ err' = "SerializedFileReader::new"
            /\ pc' = "done"
            /\ UNCHANGED <<iter, indexes>>
       ELSE /\ iter' = 0
            /\ indexes' = [i \in 1..get_row_count(file) |-> i - 1]
            /\ pc' = "shuffle"
            /\ UNCHANGED <<result, err>>
    /\ UNCHANGED <<op, file, num_records, sample_size, start, end_,
                   all_records, out, readVars, writeVars, addVars, sizeVars>>

\* indexes.shuffle(&mut rng), then take(sample_size as usize)
PrintRowsRandomShuffle ==
    /\ op = "print_rows_random" /\ pc = "shuffle"
    /\ \E p \in Permutations_({indexes[i] : i \in 1..Len(indexes)}) :
         indexes' = Take(p, AsUsize(sample_size))
    /\ start' = 0
    /\ pc' = "loop"
    /\ UNCHANGED <<op, result, err, file, num_records, sample_size, end_,
                   all_records, iter, out, readVars, writeVars, addVars, sizeVars>>

\* one turn of `while let Some(row) = iter.next()`
PrintRowsRandomLoop ==
    /\ op = "print_rows_random" /\ pc = "loop"
    /\ IF iter < RowsInFile(file)
       THEN /\ out' = IF SeqContains(indexes, start) THEN Append(out, iter) ELSE out
            /\ iter' = iter + 1
            /\ start' = start + 1
            /\ UNCHANGED <<pc, result>>
       ELSE /\ pc' = "done"
            /\ result' = "Ok"
            /\ UNCHANGED <<out, iter, start>>
    /\ UNCHANGED <<op, err, file, num_records, sample_size, end_, all_records,
                   indexes, readVars, writeVars, addVars, sizeVars>>

\* -------------------------------------------------------------------- merge
\* The merge command: it reads files with get_row_batches, combines the
\* values it holds with `+` and writes one of them with write_parquet.
StartMerge ==
    /\ op = "idle"
    /\ op' = "merge"
    /\ pc' = "ready"
    /\ UNCHANGED <<result, err, printVars, readVars, writeVars, addVars, sizeVars>>

\* get_row_batches up to the loop: open_file(input)?, the unwrap of
\* SerializedFileReader::new, the schema and the record reader
GetRowBatchesOpen ==
    /\ op = "merge" /\ pc = "ready"
    /\ reads < MaxReads
    /\ reads' = reads + 1
    /\ \E f \in BatchFiles :
         /\ input' = f
         /\ IF ~f.openable
            THEN /\ result' = "Err"
                 /\ err' = "CouldNotOpenFile"
                 /\ pc' = "done"
            ELSE IF ~f.valid
            THEN /\ result' = "panic"
                 /\ err' = "SerializedFileReader::new"
                 /\ pc' = "done"
            ELSE /\ pc' = "read_loop"
                 /\ UNCHANGED <<result, err>>
    /\ batches' = <<>>
    /\ rows' = 0
    /\ UNCHANGED <<op, datas, printVars, writeVars, addVars, sizeVars>>

\* one turn of `for maybe_batch in record_batch_reader`, or the return
GetRowBatchesLoop ==
    /\ op = "merge" /\ pc = "read_loop"
    /\ LET i == Len(batches) + 1
       IN  IF i <= NumBatches(input.rows)
           THEN IF input.bad = i
                THEN /\ result' = "panic"
                     /\ err' = "maybe_batch"
                     /\ pc' = "done"
                     /\ UNCHANGED <<batches, rows, datas>>
                ELSE LET record_batch == BatchAt(reads, input, i)
                     IN  /\ rows' = rows + record_batch.num_rows
                         /\ batches' = Append(batches, record_batch)
                         /\ UNCHANGED <<pc, result, err, datas>>
           ELSE /\ datas' = Append(datas,
                       ParquetData(Schema(input.fields, reads), batches, rows))
                /\ pc' = "ready"
                /\ UNCHANGED <<result, err, batches, rows>>
    /\ UNCHANGED <<op, reads, input, printVars, writeVars, addVars, sizeVars>>

\* lhs + rhs on the two youngest values; both are consumed
MergeAdd ==
    /\ op = "merge" /\ pc = "ready"
    /\ Len(datas) >= 2
    /\ LET n == Len(datas)
       IN  datas' = Append(SubSeq(datas, 1, n - 2), add(datas[n - 1], datas[n]))
    /\ UNCHANGED <<op, pc, result, err, reads, input, batches, rows,
                   printVars, writeVars, addVars, sizeVars>>

\* write_parquet up to the loop: File::create(output)?, the schema without
\* metadata, ArrowWriter::try_new(..)?
WriteParquetCreate ==
    /\ op = "merge" /\ pc = "ready"
    /\ Len(datas) >= 1
    /\ data' = datas[Len(datas)]
    /\ datas' = SubSeq(datas, 1, Len(datas) - 1)
    /\ written' = <<>>
    /\ \E failing \in {"", "File::create", "ArrowWriter::try_new"} :
         IF failing # ""
         THEN /\ result' = "Err"
              /\ err' = failing
              /\ pc' = "done"
              /\ UNCHANGED writer
         ELSE /\ writer' = [created |-> TRUE,
                            schema |-> Schema(data'.schema.fields, "")]
              /\ pc' = "write_loop"
              /\ UNCHANGED <<result, err>>
    /\ UNCHANGED <<op, reads, input, batches, rows, closes, printVars, addVars, sizeVars>>

\* the write loop that carries on after a failed write
WriteParquetLoop_ignores_error ==
    /\ op = "merge" /\ pc = "write_loop"
    /\ LET i == Len(written) + 1
       IN  IF i <= Len(data.batches)
           THEN /\ written' = Append(written, data.batches[i])
                /\ \E ok \in BOOLEAN :
                     IF ok
                     THEN UNCHANGED <<pc, result, err>>
                     ELSE /\ result' = "Err"
                          /\ err' = "writer.write"
                          /\ UNCHANGED pc
           ELSE /\ pc' = "write_close"
                /\ UNCHANGED <<written, result, err>>
    /\ UNCHANGED <<op, data, closes, writer, printVars, readVars, addVars,
                   sizeVars>>

\* one turn of `for record_batch in data.batches.iter()`: writer.write(..)?
WriteParquetLoop ==
    /\ op = "merge" /\ pc = "write_loop"
    /\ LET i == Len(written) + 1
       IN  IF i <= Len(data.batches)
           THEN /\ written' = Append(written, data.batches[i])
                /\ \E ok \in BOOLEAN :
                     IF ok
                     THEN UNCHANGED <<pc, result, err>>
                     ELSE /\ result' = "Err"
                          /\ err' = "writer.write"
                          /\ pc' = "done"
           ELSE /\ pc' = "write_close"
                /\ UNCHANGED <<written, result, err>>
    /\ UNCHANGED <<op, data, closes, writer, printVars, readVars, addVars, sizeVars>>

\* writer.close()?; Ok(())
WriteParquetClose ==
    /\ op = "merge" /\ pc = "write_close"
    /\ closes' = closes + 1
    /\ \E ok \in BOOLEAN :
         IF ok
         THEN /\ result' = "Ok"
              /\ UNCHANGED err
         ELSE /\ result' = "Err"
              /\ err' = "writer.close"
    /\ pc' = "done"
    /\ UNCHANGED <<op, data, written, writer, printVars, readVars, addVars, sizeVars>>

Next ==
    \/ StartPrintRows
    \/ PrintRowsOpen
    \/ PrintRowsLoop
    \/ StartPrintRowsRandom
    \/ PrintRowsRandomOpen
    \/ PrintRowsRandomShuffle
    \/ PrintRowsRandomLoop
    \/ StartMerge
    \/ GetRowBatchesOpen
    \/ GetRowBatchesLoop
    \/ MergeAdd
    \/ WriteParquetCreate
    \/ WriteParquetLoop
    \/ WriteParquetClose

Spec == Init /\ [][Next]_vars

\* the commands run on one thread and a command that can take a step takes it
FairSpec == Spec /\ WF_vars(Next)

\* ----------------------------------------------------------------------- add
\* ParquetData::add applied to operands drawn from Operands
InitAdd ==
    /\ op = "add"
    /\ pc = "left"
    /\ Fresh
    /\ FreshSize
    /\ argA \in Operands
    /\ argB \in Operands
    /\ argC \in Operands

\* (argA + argB) + argC
AddLeft ==
    /\ op = "add" /\ pc = "left"
    /\ sumAB' = add(argA, argB)
    /\ left' = add(add(argA, argB), argC)
    /\ pc' = "right"
    /\ UNCHANGED <<op, result, err, argA, argB, argC, right, printVars,
                   readVars, writeVars, sizeVars>>

\* argA + (argB + argC)
AddRight ==
    /\ op = "add" /\ pc = "right"
    /\ right' = add(argA, add(argB, argC))
    /\ pc' = "done"
    /\ UNCHANGED <<op, result, err, argA, argB, argC, sumAB, left, printVars,
                   readVars, writeVars, sizeVars>>

NextAdd == AddLeft \/ AddRight

AddSpec == InitAdd /\ [][NextAdd]_vars

\* ----------------------------------------------------------- get_pretty_size
\* get_pretty_size applied to byte counts drawn from ByteCounts
InitSize ==
    /\ op = "get_pretty_size"
    /\ pc = "call"
    /\ Fresh
    /\ FreshAdd
    /\ bytes \in ByteCounts

GetPrettySize ==
    /\ op = "get_pretty_size" /\ pc = "call"
    /\ pretty' = get_pretty_size(bytes)
    /\ pc' = "done"
    /\ UNCHANGED <<op, result, err, bytes, printVars, readVars, writeVars,
                   addVars>>

NextSize == GetPrettySize

SizeSpec == InitSize /\ [][NextSize]_vars

\* ===================================================================== claims

\* C1: add returns the left operand's schema, the sum of the two rows
\* fields, and the left operand's batches followed by the right operand's,
\* each one unchanged and in its place.
C1_AddConcatenates ==
    (op = "add" /\ pc # "left") =>
        /\ sumAB.schema = argA.schema
        /\ sumAB.rows = argA.rows + argB.rows
        /\ Len(sumAB.batches) = Len(argA.batches) + Len(argB.batches)
        /\ \A i \in 1..Len(argA.batches) : sumAB.batches[i] = argA.batches[i]
        /\ \A j \in 1..Len(argB.batches) :
              sumAB.batches[Len(argA.batches) + j] = argB.batches[j]

C1_Witness ==
    /\ op = "add" /\ pc # "left"
    /\ Len(argA.batches) = 2 /\ argA.batches[1] # argA.batches[2]
    /\ Len(argB.batches) = 2 /\ argB.batches[1] # argB.batches[2]
    /\ argA.batches # argB.batches
    /\ argA.schema # argB.schema
    /\ argA.rows = 1 /\ argB.rows = 1
    /\ Len(sumAB.batches) = 4

\* C2: every ParquetData produced by get_row_batches and any sequence of
\* merges has a rows field equal to the summed row counts of its batches.
C2_RowsIsSumOfBatches ==
    /\ \A i \in 1..Len(datas) : datas[i].rows = SumRows(datas[i].batches)
    /\ data.rows = SumRows(data.batches)

C2_Witness ==
    \E i \in 1..Len(datas) :
        /\ Len(datas[i].batches) >= 3
        /\ \E j, k \in 1..Len(datas[i].batches) :
              datas[i].batches[j].src # datas[i].batches[k].src
        /\ datas[i].rows > BATCH_SIZE

\* C3: a successful print_rows_random with 0 <= k prints min(k, n) rows, at
\* distinct and increasing file positions that were all selected; with
\* k >= n it prints every row once, in file order; whatever the shuffle.
C3_SampleCardinalityAndOrder ==
    (op = "print_rows_random" /\ pc = "done" /\ result = "Ok" /\ sample_size >= 0) =>
        LET n == RowsInFile(file) IN
        /\ Len(out) = Min(sample_size, n)
        /\ \A i \in 1..Len(out) : out[i] \in 0..n - 1 /\ SeqContains(indexes, out[i])
        /\ \A i, j \in 1..Len(out) : i < j => out[i] < out[j]
        /\ sample_size >= n => out = [i \in 1..n |-> i - 1]

C3_Witness ==
    /\ op = "print_rows_random" /\ pc = "done" /\ result = "Ok"
    /\ RowsInFile(file) = 3
    /\ sample_size = 2
    /\ out = <<0, 2>>

\* C4: print_rows_random with k <= 0 selects no index and prints no row.
C4_NonPositiveSelectsNone ==
    (op = "print_rows_random" /\ pc \in {"loop", "done"} /\ result # "Err"
        /\ sample_size <= 0) =>
        /\ indexes = <<>>
        /\ out = <<>>

\* C5: when get_row_batches meets a codec failure (the reader cannot be
\* built on a malformed file, or a batch does not decode) the command ends
\* with an error value, not with a panic, and no ParquetData is returned.
C5_CodecFailureIsErr ==
    (op = "merge" /\ pc = "done" /\ input.openable
        /\ (~input.valid \/ input.bad # 0)) =>
        /\ result = "Err"
        /\ Len(datas) < reads

\* C6: print_rows with a count c prints the first min(max(c, 0), n) rows in
\* file order, without a count all n rows, and its loop always terminates.
C6_Expected ==
    IF num_records.some
    THEN Min(Max(num_records.val, 0), RowsInFile(file))
    ELSE RowsInFile(file)

C6_PrintRowsCount ==
    /\ []((op = "print_rows" /\ pc = "done" /\ result = "Ok") =>
            out = [i \in 1..C6_Expected |-> i - 1])
    /\ ((op = "print_rows" /\ pc = "loop") ~> (pc = "done"))

C6_Witness ==
    /\ op = "print_rows" /\ pc = "done" /\ result = "Ok"
    /\ num_records = Some(2)
    /\ RowsInFile(file) = 3
    /\ out = <<0, 1>>

\* C7: (A + B) + C and A + (B + C) hold the same batch sequence and the
\* same rows field.
C7_AddAssociative ==
    (op = "add" /\ pc = "done") =>
        /\ left.batches = right.batches
        /\ left.rows = right.rows

C7_Witness ==
    /\ op = "add" /\ pc = "done"
    /\ Len(argA.batches) >= 1 /\ Len(argB.batches) >= 1 /\ Len(argC.batches) >= 1
    /\ argA.schema # argB.schema /\ argB.schema # argC.schema
    /\ argA.batches # argC.batches
    /\ Len(left.batches) >= 4
    /\ left.rows = 3

\* C8: write_parquet hands the batches to the writer one at a time in their
\* stored order; when no write fails close is called exactly once, after
\* the last batch; when a write fails the error is returned, no later batch
\* is written and close is not called.
IsPrefix(s, t) == Len(s) <= Len(t) /\ \A i \in 1..Len(s) : s[i] = t[i]

C8_State ==
    op = "merge" =>
        /\ IsPrefix(written, data.batches)
        /\ closes <= 1
        /\ closes = 1 => written = data.batches
        /\ (pc = "done" /\ writer.created /\ err # "writer.write") =>
              closes = 1 /\ written = data.batches
        /\ err = "writer.write" => result = "Err" /\ closes = 0

C8_Step ==
    /\ Len(written') <= Len(written) + 1
    /\ (err = "writer.write" \/ closes = 1) =>
          written' = written /\ closes' = closes

C8_WriteOrderAndClose == []C8_State /\ [][C8_Step]_vars

C8_Witness ==
    /\ op = "merge" /\ pc = "done" /\ result = "Ok"
    /\ Len(data.batches) >= 3
    /\ written = data.batches
    /\ closes = 1

\* C9: for bytes >= 0 get_pretty_size shows the largest unit of Bytes, KiB,
\* MiB, GiB, TiB, PiB that fits into bytes at least once (Bytes below 1024)
\* and, as the magnitude, the truncated quotient of bytes by that unit.
UnitNames == <<"Bytes", "KiB", "MiB", "GiB", "TiB", "PiB">>

\* bytes >= ONE_KI_B^e
C9_AtLeastUnit(b, e) == e = 0 \/ \E i \in e + 1..NumDigits : b[i] # 0

C9_LargestUnit(b) ==
    CHOOSE e \in 0..5 :
        C9_AtLeastUnit(b, e) /\ \A e2 \in e + 1..5 : ~C9_AtLeastUnit(b, e2)

\* the m with bytes = m * ONE_KI_B^e + r and 0 <= r < ONE_KI_B^e
C9_Quotient(b, e) ==
    b[e + 1] + (IF e + 2 <= NumDigits THEN ONE_KI_B * b[e + 2] ELSE 0)

C9_UnitAndMagnitude ==
    (op = "get_pretty_size" /\ pc = "done") =>
        LET e == C9_LargestUnit(bytes) IN
        \E fraction \in {"", ".000"} :
            pretty = ToString(C9_Quotient(bytes, e)) \o fraction
                        \o " " \o UnitNames[e + 1]

\* 1536 bytes: the KiB tier with magnitude 1
C9_Witness ==
    /\ op = "get_pretty_size" /\ pc = "done"
    /\ bytes = [i \in 1..NumDigits |->
                   IF i = 1 THEN ONE_KI_B \div 2 ELSE IF i = 2 THEN 1 ELSE 0]
    /\ pretty \in {"1 KiB", "1.000 KiB"}

\* C10: get_pretty_size(0) is "0 Bytes" and get_pretty_size(1024) is
\* "1.000 KiB"; below 1024 a plain integer and " Bytes", from the KiB tier
\* on three digits after the decimal point.
C10_Rendering ==
    (op = "get_pretty_size" /\ pc = "done") =>
        LET e == C9_LargestUnit(bytes) IN
        /\ LessThanOne(bytes) => pretty = "0 Bytes"
        /\ e = 0 => pretty = ToString(bytes[1]) \o " Bytes"
        /\ e > 0 => pretty = ToString(C9_Quotient(bytes, e)) \o ".000 "
                                \o UnitNames[e + 1]
        /\ (bytes[2] = 1 /\ \A i \in 1..NumDigits : i # 2 => bytes[i] = 0) =>
              pretty = "1.000 KiB"
====
